---------------------------- MODULE Spec2Model ----------------------------
(***************************************************************************)
(* State machine of the content script src/content.js: the image registry  *)
(* (processedImages, processingImages, images), the processImage pipeline, *)
(* the MutationObserver callback, the reload handler, the periodic sweep   *)
(* and the enable/disable session controller.                              *)
(*                                                                         *)
(* One action is one event-loop turn: a handler runs from its start to the *)
(* point where every async function it called has reached an await or has  *)
(* returned.  A processImage run that is suspended at an await is a record *)
(* of `runs`; its continuation is an action of its own.                    *)
(*                                                                         *)
(* The page holds one <img>, i1, inside a <div>, d1.  The page inserts and *)
(* removes both, changes the src of i1, resizes it and fires its load and  *)
(* error events at any time.  The collaborators of utils/ (drawBox,        *)
(* wrapImage, getOcr, base64FromAny) are modelled at their interface: the  *)
(* calls that can fail fail nondeterministically.  The wrapper <div> and   *)
(* the CSS classes are DOM state that content.js never reads and are left  *)
(* out.                                                                    *)
(***************************************************************************)
EXTENDS Integers, Sequences, FiniteSets, TLC

\* ------------------------------------------------------------------ bounds
MaxRuns == 2        \* processImage runs suspended at an await at one time
MaxBoxes == 2       \* overlay boxes alive at one time
MaxTimers == 2      \* interval timers alive at one time
MaxRegions == 1     \* regions of one recognition result
MaxEntries == 3     \* registry entries that destroyTextboxes is applied to

\* ------------------------------------------------------- program constants
MinArea == 100 * 100

\* ------------------------------------------------------------ the document
\* d1 is a <div> that the page inserts into body and removes from it; i1 is
\* an <img> that the page inserts into d1 and removes from it; c1 is a
\* <canvas> that is not in the page.
Nodes == {"i1", "c1", "d1"}
\* the <img> is 99x99 or 100x100 and is resized; the <canvas> stays 100x100
Sizes == {<<99, 99>>, <<100, 100>>}
CanvasSize == <<100, 100>>

tagName(node) ==
    CASE node = "i1" -> "IMG"
      [] node = "c1" -> "CANVAS"
      [] OTHER -> "DIV"

VARIABLES
    OCR,                \* line 43
    showTranslated,     \* line 45
    processedImages,    \* line 49
    processingImages,   \* line 51
    images,             \* line 128: sequence of [img, boxes]
    boxes,              \* the overlay box nodes, by identity
    runs,               \* the suspended processImage runs
    listeners,          \* elements that carry the onImageReload listener
    observing,          \* the MutationObserver is connected
    timers,             \* number of periodicCheck interval timers alive
    attached,           \* nodes that are children of their parent
    complete,           \* img.complete of i1
    size,               \* <<width, height>> of i1
    last,               \* the last handler of the script that ran (history)
    prior               \* the boxes an invalidated element had (history)

vars == <<OCR, showTranslated, processedImages, processingImages, images,
          boxes, runs, listeners, observing, timers, attached,
          complete, size, last, prior>>

Elements == {"i1", "c1"}
BoxIds == 1..MaxBoxes
RunIds == 1..MaxRuns

NoBox == [attached |-> FALSE, innerText |-> "", originalText |-> "undefined",
          translatedText |-> "undefined"]
\* a run: the element, the await it is suspended at ("load", "encode", "ocr")
\* and, as history, what has hit the element since the run started:
\* "removed" (the watcher saw it removed), else "cut" (a reload or a disable,
\* no removal), else "none"
NoRun == [img |-> "none", pc |-> "idle", hist |-> "none"]

\* Helper function to check if a node is an image
isImageNode(node) == tagName(node) \in {"IMG", "CANVAS"}

\* attached holds d1 when d1 is a child of body and i1 when i1 is a child
\* of d1
inDocument(node) ==
    CASE node = "d1" -> "d1" \in attached
      [] node = "i1" -> {"i1", "d1"} \subseteq attached
      [] OTHER -> FALSE

\* node.querySelectorAll('img, canvas'): the image descendants, document order
querySelectorAll(node) == 
    IF node = "d1" /\ "i1" \in attached THEN <<"i1">> ELSE <<>>



\* --------------------------------------------------- the registry snapshot
\* A handler is a composition of functions over the registry state `s`; the
\* action that runs the handler commits the final `s`.  s.ovf is set when a
\* handler would need more run slots or box nodes than the bounds provide.
Cur == [processedImages |-> processedImages,
        processingImages |-> processingImages,
        images |-> images, boxes |-> boxes, runs |-> runs,
        listeners |-> listeners, ovf |-> FALSE]

MinOf(S) == CHOOSE x \in S : \A y \in S : x <= y
MaxOf(S) == CHOOSE x \in S : \A y \in S : x >= y

FreeRuns(s) == {r \in RunIds : s.runs[r].pc = "idle"}
RunsOf(s, img) == {r \in RunIds : s.runs[r].pc # "idle" /\ s.runs[r].img = img}

\* history: the runs of img that are in flight see the event ev
mark(s, img, ev) ==
    [s EXCEPT !.runs = [r \in RunIds |->
        IF s.runs[r].pc # "idle" /\ s.runs[r].img = img
        THEN [s.runs[r] EXCEPT !.hist = IF @ = "removed" THEN @ ELSE ev]
        ELSE s.runs[r]]]

\* the async function reaches an await: the run is suspended at pc
suspend(s, img, pc) ==
    IF FreeRuns(s) = {} THEN [s EXCEPT !.ovf = TRUE]
    ELSE [s EXCEPT !.runs[MinOf(FreeRuns(s))] =
                        [img |-> img, pc |-> pc, hist |-> "none"]]

\* the size gate with <= for <
tooSmallOrEqual(img) ==
    (IF img = "i1" THEN size[1] ELSE CanvasSize[1])
        * (IF img = "i1" THEN size[2] ELSE CanvasSize[2]) <= MinArea

\* line 239: the size gate
width(img) == IF img = "i1" THEN size[1] ELSE CanvasSize[1]
height(img) == IF img = "i1" THEN size[2] ELSE CanvasSize[2]
tooSmall(img) == width(img) * height(img) < MinArea

\* the finally block without the delete
endProcessingSkipped(s, img) == s

\* lines 299-302: finally { processingImages.delete(img) }
endProcessing(s, img) == [s EXCEPT !.processingImages = @ \ {img}]

\* run r returns past the finally block
finishWithoutFinally(s, r) == [s EXCEPT !.runs[r] = NoRun]

\* run r returns (through the finally block)
finish(s, r) == [endProcessing(s, s.runs[r].img) EXCEPT !.runs[r] = NoRun]

\* lines 203-248: processImage from the call to its first await or return.
\* cpl is img.complete at the time of the call.
processImage(s, img, cpl) ==
    IF img \in s.processedImages THEN s
    ELSE IF img \in s.processingImages THEN s
    ELSE LET s1 == [s EXCEPT !.processingImages = @ \cup {img}]
         IN  IF tagName(img) = "IMG" /\ ~cpl THEN suspend(s1, img, "load")
             ELSE IF tooSmall(img) THEN endProcessing(s1, img)
             ELSE suspend(s1, img, "encode")

\* lines 236-248: run r continues after the load wait
afterLoad(s, r) ==
    IF tooSmall(s.runs[r].img) THEN finish(s, r)
    ELSE [s EXCEPT !.runs[r].pc = "encode"]

\* lines 60-77
RECURSIVE forEachProcess(_, _, _)
forEachProcess(s, imgs, cpl) ==
    IF imgs = <<>> THEN s
    ELSE forEachProcess(
            IF Head(imgs) \notin s.processedImages
            THEN processImage(s, Head(imgs), cpl) ELSE s,
            Tail(imgs), cpl)

processImagesInSubtree(s, root, cpl) ==
    IF isImageNode(root)
    THEN IF root \notin s.processedImages THEN processImage(s, root, cpl) ELSE s
    ELSE forEachProcess(s, querySelectorAll(root), cpl)

\* ------------------------------------------------------------ destroy
\* box.remove() for the boxes ids
removeBoxes(bx, ids) ==
    [b \in BoxIds |-> IF \E k \in 1..Len(ids) : ids[k] = b
                      THEN [bx[b] EXCEPT !.attached = FALSE] ELSE bx[b]]

\* Array.prototype.splice(idx): without the delete count, everything from
\* idx on is removed
spliceToEnd(seq, idx) ==
    IF idx < 1 \/ idx > Len(seq) THEN seq ELSE SubSeq(seq, 1, idx - 1)

\* Array.prototype.splice(idx, 1)
splice(seq, idx) ==
    IF idx < 1 \/ idx > Len(seq) THEN seq
    ELSE SubSeq(seq, 1, idx - 1) \o SubSeq(seq, idx + 1, Len(seq))

RECURSIVE spliceAll(_, _)
spliceAll(seq, idxs) ==
    IF idxs = <<>> THEN seq
    ELSE spliceAll(splice(seq, Head(idxs)), Tail(idxs))

\* topop left in the order forEach found it
RECURSIVE sortSkipped(_)
sortSkipped(S) ==
    IF S = {} THEN <<>>
    ELSE <<MinOf(S)>> \o sortSkipped(S \ {MinOf(S)})

\* topop.sort((a, b) => b - a)
RECURSIVE sortDescending(_)
sortDescending(S) ==
    IF S = {} THEN <<>>
    ELSE <<MaxOf(S)>> \o sortDescending(S \ {MaxOf(S)})

RECURSIVE removeBoxesOf(_, _, _)
removeBoxesOf(bx, imgs, idxs) ==
    IF idxs = {} THEN bx
    ELSE removeBoxesOf(removeBoxes(bx, imgs[MinOf(idxs)].boxes), imgs,
                       idxs \ {MinOf(idxs)})

\* lines 322-345
destroyTextboxes(s, node) ==
    IF tagName(node) \in {"IMG", "CANVAS"}
    THEN LET topop == {i \in 1..Len(s.images) : s.images[i].img = node}
         IN  [s EXCEPT !.processedImages = @ \ {node},
                       !.processingImages = @ \ {node},
                       !.boxes = removeBoxesOf(@, s.images, topop),
                       !.images = spliceAll(@, sortDescending(topop))]
    ELSE s

RECURSIVE forEachDestroy(_, _)
forEachDestroy(s, imgs) ==
    IF imgs = <<>> THEN s
    ELSE forEachDestroy(destroyTextboxes(mark(s, Head(imgs), "removed"),
                                         Head(imgs)), Tail(imgs))

\* lines 309-316; the load event has fired, so img.complete is true
onImageReload(s, img) ==
    LET s1 == [mark(s, img, "cut") EXCEPT !.processedImages = @ \ {img},
                                              !.processingImages = @ \ {img}]
    IN  processImage(destroyTextboxes(s1, img), img, TRUE)

\* ------------------------------------------------------------- overlays
\* utils/textbox drawBox: a new, detached overlay node showing toWrite
drawBox(toWrite) ==
    [attached |-> FALSE, innerText |-> toWrite, originalText |-> "undefined",
     translatedText |-> "undefined"]

\* utils/wrapper wrapImage: the element is put inside a wrapper and is
\* returned itself as newImg, or the call throws (ok = FALSE).  The wrapper
\* is DOM state that content.js never reads; it is not part of the registry.
wrapImage(img, ok) == IF ok THEN <<img, TRUE>> ELSE <<img, FALSE>>

FreeBoxes(s) == {b \in BoxIds : s.boxes[b] = NoBox}

RECURSIVE lowest(_, _)
lowest(S, n) ==
    IF n = 0 \/ S = {} THEN <<>>
    ELSE <<MinOf(S)>> \o lowest(S \ {MinOf(S)}, n - 1)

\* lines 137-165: ocr.result has n regions, each {ocr: "A", tsl: "B"}
applyOcr(s, img, n) ==
    IF Cardinality(FreeBoxes(s)) < n THEN [s EXCEPT !.ovf = TRUE]
    ELSE LET ids == lowest(FreeBoxes(s), n)
             textdiv == [drawBox(IF showTranslated THEN "B" ELSE "A") EXCEPT
                            !.originalText = "A", !.translatedText = "B",
                            !.attached = TRUE]
         IN  [s EXCEPT !.images = Append(@, [img |-> img, boxes |-> ids]),
                       !.boxes = [b \in BoxIds |->
                            IF \E k \in 1..Len(ids) : ids[k] = b
                            THEN textdiv ELSE s.boxes[b]]]

\* lines 172-191
applyError(s, img, error) ==
    IF FreeBoxes(s) = {} THEN [s EXCEPT !.ovf = TRUE]
    ELSE LET id == MinOf(FreeBoxes(s))
             textdiv == [drawBox(error) EXCEPT !.attached = TRUE]
         IN  [s EXCEPT !.images = Append(@, [img |-> img, boxes |-> <<id>>]),
                       !.boxes[id] = textdiv]

\* lines 264-274: the error text of a rejected getOcr
Outcomes == {"ok", "ERR_NETWORK", "ERR_BAD_RESPONSE", "ERR_OTHER", "throw"}
errorText(code) ==
    CASE code = "ERR_NETWORK" -> "Network error"
      [] code = "ERR_BAD_RESPONSE" -> "Error [500]: quota exceeded"
      [] OTHER -> "Unknown error"

\* lines 262-302: run r continues after getOcr settled.  outcome "throw" is
\* an exception raised inside the catch block (err.response undefined).
afterOcr(s, r, outcome, n, wrapOk) ==
    LET img == s.runs[r].img
        w == wrapImage(img, wrapOk)
        newImg == w[1]
    IN  IF outcome = "throw" \/ ~w[2] THEN finish(s, r)
        ELSE LET a == IF outcome = "ok"
                      THEN [applyOcr(s, newImg, n) EXCEPT
                                !.processedImages = @ \cup {img}]
                      ELSE applyError(s, newImg, errorText(outcome))
             IN  finish([a EXCEPT !.listeners = @ \cup {newImg}], r)

\* lines 245-263: run r continues after base64FromAny settled
afterEncode(s, r, ok) ==
    IF ok THEN [s EXCEPT !.runs[r].pc = "ocr"] ELSE finish(s, r)

\* the teardown loop without processedImages.delete(ptr.img)
RECURSIVE teardownKeepsProcessed(_, _)
teardownKeepsProcessed(s, i) ==
    IF i = 0 THEN s
    ELSE LET ptr == s.images[i]
             s1 == [s EXCEPT !.boxes = removeBoxes(@, ptr.boxes),
                             !.listeners = @ \ {ptr.img},
                             !.processingImages = @ \ {ptr.img},
                             !.images = splice(@, i)]
         IN  teardownKeepsProcessed(s1, i - 1)

\* lines 407-419: the teardown loop of disableOCR, from the last entry down
RECURSIVE teardown(_, _)
teardown(s, i) ==
    IF i = 0 THEN s
    ELSE LET ptr == s.images[i]
             s1 == [s EXCEPT !.boxes = removeBoxes(@, ptr.boxes),
                             !.listeners = @ \ {ptr.img},
                             !.processedImages = @ \ {ptr.img},
                             !.processingImages = @ \ {ptr.img},
                             !.images = splice(@, i)]
         IN  teardown(s1, i - 1)

\* a box node that is detached and that no entry holds is garbage
collect(s) ==
    LET held == {b \in BoxIds : \E i \in 1..Len(s.images) :
                    \E k \in 1..Len(s.images[i].boxes) : s.images[i].boxes[k] = b}
    IN  [b \in BoxIds |-> IF b \notin held /\ ~s.boxes[b].attached
                          THEN NoBox ELSE s.boxes[b]]

\* The suspended runs are a bag: which slot holds which run is nothing the
\* program has, so the slots are kept in one fixed order.
runKey(run) ==
    (CASE run.pc = "load" -> 0 [] run.pc = "encode" -> 1
       [] run.pc = "ocr" -> 2 [] OTHER -> 3) * 6
    + (CASE run.hist = "none" -> 0 [] run.hist = "cut" -> 1 [] OTHER -> 2) * 2
    + (IF run.img = "i1" THEN 0 ELSE 1)

ordered(rs) ==
    LET p == CHOOSE q \in Permutations(RunIds) :
                \A i, j \in RunIds : i < j => runKey(rs[q[i]]) <= runKey(rs[q[j]])
    IN  [r \in RunIds |-> rs[p[r]]]

\* the registry entries of the image elements that node is or contains
entriesOf(imgs, node) ==
    {i \in 1..Len(imgs) :
        \/ imgs[i].img = node
        \/ \E k \in 1..Len(querySelectorAll(node)) :
                querySelectorAll(node)[k] = imgs[i].img}

boxesOf(imgs, idxs) ==
    {b \in BoxIds : \E i \in idxs : \E k \in 1..Len(imgs[i].boxes) :
                        imgs[i].boxes[k] = b}

\* history: the number of runs that a handler taking s0 to s1 started and
\* left suspended at an await
started(s0, s1) ==
    Cardinality({r \in RunIds : s1.runs[r].pc # "idle"})
        - Cardinality({r \in RunIds : s0.runs[r].pc # "idle"})

\* history: the handler op ran for el.  had is the number of registry
\* entries a teardown (removedNode, destroyTextboxes, disableOCR) found, or
\* the number of runs
\* a sweep (periodicCheck) started; hist is the history of the run that
\* rendered (applyOcr, applyError)
Last(op, el) ==
    [op |-> op, el |-> el,
     had |-> IF op \in {"removedNode", "destroyTextboxes"}
             THEN Cardinality(entriesOf(images, el))
             ELSE IF op = "disableOCR" THEN Len(images) ELSE 0,
     hist |-> "none"]

LastOf(op, r) ==
    [op |-> op, el |-> runs[r].img, had |-> 0,
     hist |-> IF op \in {"applyOcr", "applyError"} THEN runs[r].hist
              ELSE "none"]

\* history: an invalidate event (reload, src change) on an element that has
\* entries records their boxes, until the next recognition success has been
\* seen or the registry state of the element is torn down (removal,
\* disable); a box leaves the record when it is garbage
NoPrior == [on |-> FALSE, boxes |-> {}]
priorAfter(bx, op, el) ==
    LET base == IF last.op = "applyOcr" \/ op \in {"removedNode", "disableOCR"}
                THEN NoPrior ELSE prior
        now == IF op \in {"load", "attributeChanged"}
                   /\ entriesOf(images, el) # {}
                   /\ (op = "load" => el \in listeners)
               THEN [on |-> TRUE,
                     boxes |-> base.boxes
                                 \cup boxesOf(images, entriesOf(images, el))]
               ELSE base
    IN  [now EXCEPT !.boxes = {b \in @ : bx[b] # NoBox}]

Commit(s, l) ==
    /\ ~s.ovf
    /\ processedImages' = s.processedImages
    /\ processingImages' = s.processingImages
    /\ images' = s.images
    /\ boxes' = collect(s)
    /\ runs' = ordered(s.runs)
    /\ listeners' = s.listeners
    /\ last' = l
    /\ prior' = priorAfter(boxes', l.op, l.el)

registry == <<processedImages, processingImages, images, boxes, runs,
              listeners>>
dom == <<attached, complete, size>>

\* ------------------------------------------------------------------- Init
\* The script has just been injected: the session is disabled, the registry
\* is empty; the page is in any state.
Init ==
    /\ OCR = FALSE
    /\ showTranslated = TRUE
    /\ processedImages = {}
    /\ processingImages = {}
    /\ images = <<>>
    /\ boxes = [b \in BoxIds |-> NoBox]
    /\ runs = [r \in RunIds |-> NoRun]
    /\ listeners = {}
    /\ observing = FALSE
    /\ timers = 0
    /\ attached \in SUBSET {"i1", "d1"}
    /\ complete \in BOOLEAN
    /\ size \in Sizes
    /\ last = [op |-> "init", el |-> "none", had |-> 0, hist |-> "none"]
    /\ prior = NoPrior

\* ------------------------------------------------------ session controller
\* enableOCR without the early return of lines 353-355
enableOCRUnguarded ==
    /\ timers < MaxTimers
    /\ OCR' = TRUE
    /\ LET s1 == IF inDocument("i1")
                 THEN processImage(Cur, "i1", complete) ELSE Cur
           s2 == IF inDocument("c1")
                 THEN processImage(s1, "c1", TRUE) ELSE s1
       IN  Commit(s2, Last("enableOCR", "none"))
    /\ observing' = TRUE
    /\ timers' = timers + 1
    /\ UNCHANGED <<showTranslated, dom>>

\* lines 352-390, message 'enable-ocr'
enableOCR ==
    IF OCR = TRUE
    THEN /\ last' = [op |-> "enableOCR", el |-> "noop", had |-> 0,
                       hist |-> "none"]
         /\ UNCHANGED <<OCR, showTranslated, registry, observing, timers, dom,
                        prior>>
    ELSE /\ timers < MaxTimers
         /\ OCR' = TRUE
         /\ LET s1 == IF inDocument("i1")
                      THEN processImage(Cur, "i1", complete) ELSE Cur
                s2 == IF inDocument("c1")
                      THEN processImage(s1, "c1", TRUE) ELSE s1
            IN  Commit(s2, Last("enableOCR", "none"))
         /\ observing' = TRUE
         /\ timers' = timers + 1
         /\ UNCHANGED <<showTranslated, dom>>

\* lines 398-423, message 'disable-ocr'
disableOCR ==
    IF OCR = FALSE
    THEN /\ last' = [op |-> "disableOCR", el |-> "noop", had |-> 0,
                       hist |-> "none"]
         /\ UNCHANGED <<OCR, showTranslated, registry, observing, timers, dom,
                        prior>>
    ELSE /\ OCR' = FALSE
         /\ observing' = FALSE
         /\ Commit(teardown(mark(mark(Cur, "i1", "cut"), "c1", "cut"),
                             Len(images)),
                    Last("disableOCR", "none"))
         /\ UNCHANGED <<showTranslated, timers, dom>>

\* the interval callback without the forEach of lines 383-388
sweepSkipped(s, imgs) == s

\* lines 377-389: one firing of one interval timer
RECURSIVE sweep(_, _)
sweep(s, imgs) ==
    IF imgs = <<>> THEN s
    ELSE sweep(IF Head(imgs) \notin s.processedImages
               THEN processImage(s, Head(imgs),
                                 IF Head(imgs) = "i1" THEN complete ELSE TRUE)
               ELSE s, Tail(imgs))

\* document.querySelectorAll('img, canvas')
documentImages ==
    (IF inDocument("i1") THEN <<"i1">> ELSE <<>>)
        \o (IF inDocument("c1") THEN <<"c1">> ELSE <<>>)

periodicCheck ==
    /\ timers > 0
    /\ IF ~OCR
       THEN /\ timers' = timers - 1
            /\ last' = [op |-> "clearInterval", el |-> "none", had |-> 0,
                          hist |-> "none"]
            /\ UNCHANGED <<OCR, showTranslated, registry, observing, dom,
                           prior>>
       ELSE /\ LET s1 == sweep(Cur, documentImages)
               IN  Commit(s1, [Last("periodicCheck", "none") EXCEPT
                                    !.had = started(Cur, s1)])
            /\ UNCHANGED <<OCR, showTranslated, observing, timers, dom>>

\* lines 456-475
setText(bx, imgs, field) ==
    [b \in BoxIds |->
        IF \E i \in 1..Len(imgs) : \E k \in 1..Len(imgs[i].boxes) :
                imgs[i].boxes[k] = b
        THEN [bx[b] EXCEPT !.innerText = bx[b][field]] ELSE bx[b]]

showOriginalText ==
    /\ showTranslated' = FALSE
    /\ Commit([Cur EXCEPT !.boxes = setText(@, images, "originalText")],
              Last("show-original-text", "none"))
    /\ UNCHANGED <<OCR, observing, timers, dom>>

showTranslatedText ==
    /\ showTranslated' = TRUE
    /\ Commit([Cur EXCEPT !.boxes = setText(@, images, "translatedText")],
              Last("show-translated-text", "none"))
    /\ UNCHANGED <<OCR, observing, timers, dom>>

\* -------------------------------------------------------- mutation watcher
\* lines 82-93: the page inserts a node; the observer sees an added node
addedNode(node) ==
    /\ node \in {"i1", "d1"} \ attached
    /\ attached' = attached \cup {node}
    /\ IF observing /\ inDocument(node)'
       THEN Commit(IF isImageNode(node) THEN processImage(Cur, node, complete)
                   ELSE processImagesInSubtree(Cur, node, complete),
                   Last("addedNode", node))
       ELSE UNCHANGED <<registry, last, prior>>
    /\ UNCHANGED <<OCR, showTranslated, observing, timers, complete, size>>

\* lines 95-109: the page removes a node; the observer sees a removed node
removedNode(node) ==
    /\ node \in attached
    /\ attached' = attached \ {node}
    /\ IF observing /\ inDocument(node)
       THEN Commit(IF isImageNode(node)
                   THEN destroyTextboxes(mark(Cur, node, "removed"), node)
                   ELSE forEachDestroy(Cur, querySelectorAll(node)),
                   Last("removedNode", node))
       ELSE UNCHANGED <<registry, last, prior>>
    /\ UNCHANGED <<OCR, showTranslated, observing, timers, complete, size>>

\* lines 112-119: the page sets src or data-src of an image element; a new
\* src may leave an <img> not complete until its load event
attributeChanged(el, cpl) ==
    /\ complete' = IF el = "i1" THEN cpl ELSE complete
    /\ IF observing /\ inDocument(el)
       THEN LET s1 == [Cur EXCEPT !.processedImages = @ \ {el}]
            IN  Commit(processImage(s1, el, IF el = "i1" THEN cpl ELSE TRUE),
                       Last("attributeChanged", el))
       ELSE UNCHANGED <<registry, last, prior>>
    /\ UNCHANGED <<OCR, showTranslated, observing, timers, attached, size>>

\* ------------------------------------------------------------ image events
RECURSIVE resumeAll(_, _)
resumeAll(s, rs) ==
    IF rs = {} THEN s
    ELSE resumeAll(afterLoad(s, MinOf(rs)), rs \ {MinOf(rs)})

loadWaiting(s, img) ==
    {r \in RunIds : s.runs[r].pc = "load" /\ s.runs[r].img = img}

\* 'load' on the <img>: onImageReload if attached (line 297), then the
\* onLoad listeners of the waiting runs (lines 226-231)
loadEvent ==
    /\ complete' = TRUE
    /\ LET s1 == IF "i1" \in listeners THEN onImageReload(Cur, "i1") ELSE Cur
       IN  Commit(resumeAll(s1, loadWaiting(s1, "i1")), Last("load", "i1"))
    /\ UNCHANGED <<OCR, showTranslated, observing, timers, attached, size>>

\* 'error' on the <img>: the onLoad listeners of the waiting runs
errorEvent ==
    /\ ~complete
    /\ complete' = TRUE
    /\ Commit(resumeAll(Cur, loadWaiting(Cur, "i1")), Last("error", "i1"))
    /\ UNCHANGED <<OCR, showTranslated, observing, timers, attached, size>>

\* the load wait without setTimeout(resolve, 5000): no timer, no step
loadTimeoutMissing(r) == FALSE /\ UNCHANGED vars

\* line 234: the fallback timer of run r resolves its load wait
loadTimeout(r) ==
    /\ runs[r].pc = "load"
    /\ Commit(afterLoad(Cur, r), LastOf("loadTimeout", r))
    /\ UNCHANGED <<OCR, showTranslated, observing, timers, dom>>

\* the page resizes an image element
resize(sz) ==
    /\ size # sz
    /\ size' = sz
    /\ UNCHANGED <<OCR, showTranslated, registry, observing, timers,
                   attached, complete, last, prior>>

\* ------------------------------------------------------ run continuations
encodeSettled(r, ok) ==
    /\ runs[r].pc = "encode"
    /\ Commit(afterEncode(Cur, r, ok),
              LastOf(IF ok THEN "encoded" ELSE "encodeFailed", r))
    /\ UNCHANGED <<OCR, showTranslated, observing, timers, dom>>

ocrSettled(r, outcome, n, wrapOk) ==
    /\ runs[r].pc = "ocr"
    /\ outcome # "ok" => n = 1
    /\ outcome = "throw" => wrapOk
    /\ Commit(afterOcr(Cur, r, outcome, n, wrapOk),
              LastOf(IF outcome = "throw" THEN "threw"
                     ELSE IF ~wrapOk THEN "wrapFailed"
                     ELSE IF outcome = "ok" THEN "applyOcr" ELSE "applyError",
                     r))
    /\ UNCHANGED <<OCR, showTranslated, observing, timers, dom>>

Next ==
    \/ enableOCR
    \/ disableOCR
    \/ periodicCheck
    \/ \E node \in {"i1", "d1"} : addedNode(node)
    \/ \E node \in {"i1", "d1"} : removedNode(node)
    \/ \E el \in {"i1"}, cpl \in BOOLEAN : attributeChanged(el, cpl)
    \/ loadEvent
    \/ errorEvent
    \/ \E r \in RunIds : loadTimeout(r)
    \/ \E sz \in Sizes : resize(sz)
    \/ \E r \in RunIds, ok \in BOOLEAN : encodeSettled(r, ok)
    \/ \E r \in RunIds, outcome \in Outcomes, n \in 1..MaxRegions,
          wrapOk \in BOOLEAN : ocrSettled(r, outcome, n, wrapOk)

Spec == Init /\ [][Next]_vars

\* The session once enabled stays enabled and the nodes stay where they are:
\* the page resizes i1 and fires its load and error events, the sweep timer
\* fires, the runs continue.
StayNext ==
    \/ enableOCR
    \/ periodicCheck
    \/ loadEvent
    \/ errorEvent
    \/ \E r \in RunIds : loadTimeout(r)
    \/ \E sz \in Sizes : resize(sz)
    \/ \E r \in RunIds, ok \in BOOLEAN : encodeSettled(r, ok)
    \/ \E r \in RunIds, outcome \in Outcomes, n \in 1..MaxRegions,
          wrapOk \in BOOLEAN : ocrSettled(r, outcome, n, wrapOk)

\* The scheduling the sweep's liveness rests on: an interval timer that is
\* alive fires again and again (setInterval, line 377), the fallback timer
\* of a load wait fires (setTimeout, line 234), and base64FromAny, getOcr and
\* wrapImage, called again and again, eventually succeed.
Fairness ==
    /\ WF_vars(periodicCheck)
    /\ WF_vars(\E r \in RunIds : loadTimeout(r))
    /\ SF_vars(\E r \in RunIds : encodeSettled(r, TRUE))
    /\ SF_vars(\E r \in RunIds, n \in 1..MaxRegions :
                    ocrSettled(r, "ok", n, TRUE))
FairSpec == Init /\ [][StayNext]_vars /\ Fairness

\* The scheduling the termination of a run rests on: the fallback timer of
\* a load wait fires (setTimeout, line 234), and the promises of
\* base64FromAny (line 248) and getOcr (line 262) settle, one way or the other.
Settling ==
    /\ WF_vars(\E r \in RunIds : loadTimeout(r))
    /\ WF_vars(\E r \in RunIds, ok \in BOOLEAN : encodeSettled(r, ok))
    /\ WF_vars(\E r \in RunIds, outcome \in Outcomes, n \in 1..MaxRegions,
                  wrapOk \in BOOLEAN : ocrSettled(r, outcome, n, wrapOk))
SettlingSpec == Init /\ [][StayNext]_vars /\ Settling

\* the enabled session with the two text commands
NextText == StayNext \/ showOriginalText \/ showTranslatedText
SpecText == Init /\ [][NextText]_vars

\* ------------------------------------------- destroyTextboxes on its own
\* The registries destroyTextboxes is applied to: up to MaxEntries entries
\* of the <img> and the <canvas> in any order, several of one element
\* included (a retried element has one entry per finished run); an entry
\* holds no box (ocr.result empty) or one box of applyOcr.
BoxLists == {<<>>} \cup {<<b>> : b \in BoxIds}
Entries == [img : Elements, boxes : BoxLists]
Registries ==
    {seq \in UNION {[1..n -> Entries] : n \in 0..MaxEntries} :
        \A i, j \in 1..Len(seq) :
            i < j => \A b \in BoxIds : ~(seq[i].boxes = <<b>> /\ seq[j].boxes = <<b>>)}

InitDestroy ==
    /\ OCR = TRUE
    /\ showTranslated = TRUE
    /\ images \in Registries
    /\ processedImages \in SUBSET {images[i].img : i \in 1..Len(images)}
    /\ processingImages = {}
    /\ boxes = [b \in BoxIds |->
                    IF b \in boxesOf(images, 1..Len(images))
                    THEN [drawBox("B") EXCEPT !.originalText = "A",
                                              !.translatedText = "B",
                                              !.attached = TRUE]
                    ELSE NoBox]
    /\ runs = [r \in RunIds |-> NoRun]
    /\ listeners = {images[i].img : i \in 1..Len(images)}
    /\ observing = TRUE
    /\ timers = 1
    /\ attached = {"i1", "d1"}
    /\ complete = TRUE
    /\ size = <<100, 100>>
    /\ last = [op |-> "init", el |-> "none", had |-> 0, hist |-> "none"]
    /\ prior = NoPrior

\* one call of destroyTextboxes(node)
destroyCall(node) ==
    /\ Commit(destroyTextboxes(Cur, node), Last("destroyTextboxes", node))
    /\ UNCHANGED <<OCR, showTranslated, observing, timers, dom>>

DestroyNext == \E node \in Nodes : destroyCall(node)
DestroySpec == InitDestroy /\ [][DestroyNext]_vars

\* ================================================================ claims
runsOf(el) == RunsOf(Cur, el)
entryCount(el) == Cardinality({i \in 1..Len(images) : images[i].img = el})
ErrorTexts == {errorText(c) : c \in Outcomes \ {"ok", "throw"}}

\* C1: for every element at most one processImage run is in flight at any
\* time, under every interleaving of submissions, removals, reloads and
\* completions.
SingleFlight == \A el \in Elements : Cardinality(runsOf(el)) <= 1

\* C2: in every reachable state the registry sequence holds at most one
\* entry per owning element.
OneEntryPerElement == \A el \in Elements : entryCount(el) <= 1

\* C3: at every turn boundary no element is in both processedImages and
\* processingImages, also when two runs for the same element overlap.
NeverProcessedAndProcessing == processedImages \cap processingImages = {}

\* C3 witness: a run has just marked the element processed while another
\* run for the same element is still in flight.
ProcessedWhileOverlapping ==
    /\ last.op = "applyOcr"
    /\ last.el \in processedImages
    /\ runsOf(last.el) # {}

\* C4: immediately after disableOCR runs on an enabled session the registry
\* sequence is empty, every box of every former entry is removed from the
\* document, and no element that had an entry is processed or processing.
DisableLeavesNothing ==
    [][(OCR /\ ~OCR') =>
        /\ images' = <<>>
        /\ \A b \in boxesOf(images, 1..Len(images)) : ~boxes'[b].attached
        /\ \A i \in 1..Len(images) :
              images[i].img \notin processedImages' \cup processingImages']_vars

\* C4 witness: disableOCR has just torn down a registry of two entries.
DisabledTwoEntries == last.op = "disableOCR" /\ last.had = 2 /\ ~OCR

\* C5: while OCR is false the registry stays empty and no element becomes
\* processed, also when a run that was in flight at the disable resolves.
DisabledStaysEmpty == ~OCR => (images = <<>> /\ processedImages = {})

\* C6: for an element that has an entry, an invalidate-then-resubmit event
\* (reload, src/data-src change) followed by a successful run leaves exactly
\* one entry for it, and every box of the prior entry is out of the document.
ReprocessLeavesOneEntry ==
    (last.op = "applyOcr" /\ prior.on) =>
        (entryCount(last.el) = 1 /\ prior.boxes = {})

\* C7: a src/data-src change on a trackable element clears its processed and
\* its processing flag and starts a fresh run, also when a run for it is in
\* flight (the run that starts is suspended, or ended at the size gate).
SrcChangeRestarts ==
    [][\A cpl \in BOOLEAN :
        (attributeChanged("i1", cpl) /\ observing /\ inDocument("i1")) =>
            /\ "i1" \notin processedImages'
            /\ \/ cpl /\ tooSmall("i1")
               \/ Cardinality({r \in RunIds : runs'[r].pc # "idle"})
                    = Cardinality({r \in RunIds : runs[r].pc # "idle"}) + 1]_vars

\* C8: in the step in which the watcher handles a removed node, for every
\* trackable element that is the node or a descendant of it: no entry of it
\* remains, the boxes of its entries are removed from the document, and it
\* is in neither processedImages nor processingImages.
RemovalDestroys ==
    [][\A node \in {"i1", "d1"} :
        (removedNode(node) /\ observing /\ inDocument(node)) =>
            /\ entriesOf(images', node) = {}
            /\ \A b \in boxesOf(images, entriesOf(images, node)) :
                  ~boxes'[b].attached
            /\ \A el \in Elements :
                  (el = node \/ \E k \in 1..Len(querySelectorAll(node)) :
                                    querySelectorAll(node)[k] = el)
                  => el \notin processedImages' \cup processingImages']_vars

\* C8 witness: the watcher has just handled the removal of a subtree whose
\* image had two registry entries.
RemovedSubtreeTwoEntries ==
    last.op = "removedNode" /\ last.el = "d1" /\ last.had = 2

\* C9: if an element is removed from the document after its run started and
\* before recognition resolves, then after the run completes no registry
\* entry for the removed element remains.
NoEntryAfterRemoval ==
    (last.op \in {"applyOcr", "applyError"} /\ last.hist = "removed"
        /\ ~inDocument(last.el)) => entryCount(last.el) = 0

\* C10: when recognition fails and wrapping succeeds, the run adds one entry
\* holding exactly one box with the error text, and at the end of the run
\* the element is in neither processedImages nor processingImages.
ErrorRunLeavesRetryable ==
    last.op = "applyError" =>
        /\ Len(images) >= 1
        /\ images[Len(images)].img = last.el
        /\ Len(images[Len(images)].boxes) = 1
        /\ boxes[images[Len(images)].boxes[1]].innerText \in ErrorTexts
        /\ boxes[images[Len(images)].boxes[1]].attached
        /\ last.el \notin processedImages \cup processingImages

\* the sizes of i1 that pass the size gate of line 239
LargeEnough == {sz \in Sizes : ~(sz[1] * sz[2] < MinArea)}

\* C11: while the session stays enabled, an element that stays in the
\* document and is not marked processed is resubmitted by the periodic sweep,
\* so that, if it stays large enough and encode, recognition and wrap
\* eventually succeed, it eventually becomes processed (as long as the
\* overlay boxes are not all in use).
SweepEventuallyProcesses ==
    (OCR /\ inDocument("i1") /\ "i1" \notin processedImages)
        ~> \/ "i1" \in processedImages
           \/ ~OCR \/ ~inDocument("i1") \/ size \notin LargeEnough
           \/ FreeBoxes(Cur) = {}

\* C11 witness: the sweep has just started a run for an element that a
\* failed recognition left unprocessed.
SweepRetriedAfterError ==
    /\ last.op = "periodicCheck" /\ last.had = 1
    /\ OCR /\ inDocument("i1")
    /\ "i1" \notin processedImages
    /\ entryCount("i1") = 1

\* the runs that are suspended at the await pc
runsAt(rs, pc) == {r \in RunIds : rs[r].pc = pc}

\* C12: a run reaches the encode step if and only if width*height is at
\* least 10000 when the gate is checked; a rejected run adds no registry
\* entry, does not mark the element processed and leaves it out of
\* processingImages.  The gate is checked after the load wait (loadTimeout)
\* and in the turn of the call when the element is complete (periodicCheck).
SizeGate ==
    [][/\ Cardinality(runsAt(runs', "encode")) > Cardinality(runsAt(runs, "encode"))
            => size \in LargeEnough
       /\ \A r \in RunIds : loadTimeout(r) =>
            IF size \in LargeEnough
            THEN /\ Cardinality(runsAt(runs', "encode"))
                        = Cardinality(runsAt(runs, "encode")) + 1
                 /\ Cardinality(runsAt(runs', "load"))
                        = Cardinality(runsAt(runs, "load")) - 1
            ELSE /\ Cardinality(runsAt(runs', "encode"))
                        = Cardinality(runsAt(runs, "encode"))
                 /\ Cardinality(runsAt(runs', "load"))
                        = Cardinality(runsAt(runs, "load")) - 1
                 /\ images' = images
                 /\ processedImages' = processedImages
                 /\ runs[r].img \notin processingImages'
       /\ (periodicCheck /\ OCR /\ inDocument("i1") /\ complete
                /\ "i1" \notin processedImages \cup processingImages) =>
            IF size \in LargeEnough
            THEN /\ Cardinality(runsAt(runs', "encode"))
                        = Cardinality(runsAt(runs, "encode")) + 1
                 /\ "i1" \in processingImages'
            ELSE /\ runs' = runs
                 /\ images' = images
                 /\ processedImages' = processedImages
                 /\ "i1" \notin processingImages']_vars

\* C12 witness: the fallback timer has released the only run in flight and
\* the run has returned at the size gate.
RejectedAtGate ==
    /\ last.op = "loadTimeout"
    /\ runsOf("i1") = {}
    /\ "i1" \notin processedImages \cup processingImages
    /\ images = <<>>

\* the boxes after show-original-text and then show-translated-text
roundTrip ==
    setText(setText(boxes, images, "originalText"), images, "translatedText")

\* C13: for every box of every registry entry, boxes of applyOcr and boxes
\* of applyError, handling show-original-text and then show-translated-text
\* leaves the box displaying the text it displayed before (the session
\* showing translated text before the two commands).
RoundTripRestores ==
    showTranslated =>
        \A b \in boxesOf(images, 1..Len(images)) :
            roundTrip[b].innerText = boxes[b].innerText

\* C14: after any sequence of enable-ocr and disable-ocr commands, also a
\* disable followed by an enable before the next sweep tick, at most one
\* sweep timer is active while the session is enabled.
AtMostOneSweepTimer == OCR => timers <= 1

\* C15: enableOCR on an enabled session and disableOCR on a disabled session
\* change nothing: no element is submitted, no sweep timer is started, the
\* watcher state, the registry sequence and both flag sets are unchanged.
SessionIdempotent ==
    [][((enableOCR /\ OCR) \/ (disableOCR /\ ~OCR)) =>
            UNCHANGED <<OCR, observing, timers, processedImages,
                        processingImages, images, runs, boxes, listeners>>]_vars

\* C15 witness: enable-ocr has arrived at an enabled session whose element
\* is in the document, not processed and not processing.
EnabledTwice ==
    /\ last.op = "enableOCR" /\ last.el = "noop"
    /\ OCR /\ inDocument("i1")
    /\ "i1" \notin processedImages \cup processingImages

\* C16: in every reachable state, an element with no processImage run in
\* flight is not in processingImages, whichever way its runs ended.
FlagNeverOutlivesRuns ==
    \A el \in Elements : runsOf(el) = {} => el \notin processingImages

\* C16 witness: the last run of an element has just ended by an exception
\* thrown in the catch block of getOcr.
RunEndedByException ==
    /\ last.op = "threw"
    /\ runsOf(last.el) = {}
    /\ last.el \notin processingImages

\* C17: if processImage is called on an element (here by the sweep) while a
\* run for it is in flight that has seen no removal, reload or disable since
\* it started, the call starts no run and changes neither flag set nor the
\* registry sequence.
SecondCallIsNoOp ==
    [][(periodicCheck /\ OCR /\ inDocument("i1")
            /\ \E r \in runsOf("i1") : runs[r].hist = "none") =>
        /\ runs' = runs
        /\ processedImages' = processedImages
        /\ processingImages' = processingImages
        /\ images' = images]_vars

\* C18: destroyTextboxes(e) removes from the registry sequence exactly the
\* entries owned by e, also when there are several, and leaves every entry
\* of every other element in the sequence, in the same relative order and
\* with its boxes as they were; on a node that is not an IMG or a CANVAS it
\* changes nothing.
DestroyFrame ==
    [][\A node \in Nodes : destroyCall(node) =>
        /\ images' = SelectSeq(images, LAMBDA e : e.img # node)
        /\ \A i \in 1..Len(images) : images[i].img # node =>
              \A k \in 1..Len(images[i].boxes) :
                  boxes'[images[i].boxes[k]] = boxes[images[i].boxes[k]]
        /\ ~isImageNode(node) =>
              UNCHANGED <<images, boxes, processedImages, processingImages>>]_vars

\* C18 witness: destroyTextboxes has removed two entries of the <img> and
\* an entry of the <canvas> is left.
DestroyedTwoOfThree ==
    /\ last.op = "destroyTextboxes" /\ last.el = "i1" /\ last.had = 2
    /\ Len(images) = 1 /\ images[1].img = "c1"

\* C19: a run that waits for a not yet loaded image gets past the load wait
\* even if neither load nor error ever fires, and a run that has started
\* finishes and clears the processing flag, provided the encode and the
\* recognition calls settle.
RunTerminates ==
    /\ (\E r \in RunIds : runs[r].pc = "load")
            ~> (\A r \in RunIds : runs[r].pc # "load")
    /\ ("i1" \in processingImages) ~> ("i1" \notin processingImages)

\* C19 witness: the fallback timer has released a run from its load wait
\* and neither load nor error has fired: the image is still not complete.
ReleasedByFallbackTimer ==
    /\ last.op = "loadTimeout"
    /\ ~complete
    /\ \E r \in RunIds : runs[r].pc = "encode"

\* C20: while the session is disabled no new pipeline run is started, after
\* any sequence of enable, disable, removal, late run completion and load
\* events; no reload listener of an earlier run can still call processImage.
NoRunWhileDisabled ==
    [][(~OCR /\ ~OCR') =>
        Cardinality({r \in RunIds : runs'[r].pc # "idle"})
            <= Cardinality({r \in RunIds : runs[r].pc # "idle"})]_vars
=============================================================================
